---- MODULE Spec2Model ----
(***************************************************************************)
(* Block scanner bot: the batch-file lifecycle, the progress record and    *)
(* the scan loop of BlockchainScanner (src/blockchain_scanner.py), driven  *)
(* by the command handlers of TelegramBlockchainBot (src/main.py).         *)
(*                                                                         *)
(* The command handlers run one at a time on the bot's event loop; every   *)
(* accepted start request runs scan_blocks_thread on a thread of its own,  *)
(* which shares the scanner object and the data directory with the         *)
(* handlers.  A step of the model is one statement (or one file system     *)
(* call) of one of them.                                                   *)
(***************************************************************************)
EXTENDS Integers, Sequences, FiniteSets, TLC

\* ------------------------------------------------------------------ bounds

\* Highest batch index the model lets rotate reach.
MaxIndex == 2
\* Process restarts (crash or redeploy) over one behaviour.
MaxRestarts == 1
\* Stands for the run limit of scan_blocks (end_block = start_block + 20).
RunLimit == 1
\* Transactions in a segment of a block response (more than the 3 sampled).
MaxTx == 4

\* --------------------------------------------------------------- constants

\* check_balance divides final_balance by this scale.
SubunitScale == 100000000

\* The worker threads a process creates over its life: two in the
\* specification of racing scans, one in the others.
Threads == {1, 2}
OneThread == {1}
\* Addresses the block service hands out.
Addresses == {"X"}
\* final_balance values the balance service hands out.
Subunits == {0, 150000000}
\* keep_count values given to /cleanup (int(context.args[0]), default 5).
KeepCounts == {-1, 0, 1, 5}
Idx == 1..MaxIndex

\* A path of the data directory: missing, or a file with its lines.
NoFile == [exists |-> FALSE, lines |-> <<>>]
File(lines) == [exists |-> TRUE, lines |-> lines]
\* progress.json: missing, empty (cut short by open(.., 'w')), text that is
\* not JSON, JSON that is not an object (a list, a number, null), or the
\* record.
NoData == [current_block |-> 0, total_addresses |-> 0,
           addresses_with_balance |-> 0, current_file_index |-> 0]
Absent == [state |-> "absent", data |-> NoData]
Truncated == [state |-> "truncated", data |-> NoData]
Invalid == [state |-> "invalid", data |-> NoData]
NotRecord == [state |-> "value", data |-> NoData]
Json(data) == [state |-> "json", data |-> data]
None == "None"

VARIABLES
    addr_files,              \* data/addresses_<i>.txt: NoFile or its lines
    bal_files,               \* data/addresses_with_balance_<i>.txt
    progress_file,           \* data/progress.json: Absent, Truncated, or the record
    other_files,             \* names in data/ that are not <prefix>_<index>.txt
    current_block,           \* scanner.current_block (set by __init__ only)
    total_addresses,
    addresses_with_balance,
    is_running,
    current_file_index,
    current_addresses_file,  \* the index in the name held by the attribute
    current_balances_file,
    th,                      \* per thread: pc and the locals of scan_blocks
    cmd,                     \* the handler the event loop is inside of
    pid,                     \* incarnation of the process
    stopped,                 \* history: threads in scan_blocks when a stop was made
    last_saved,              \* history: block number of the last completed save
    deleted,                 \* history: a log was deleted in this incarnation
    ever_active,             \* history: the indices __init__ or a rotate made active
    rot                      \* history: the last rotate, until another command

vars == <<addr_files, bal_files, progress_file, other_files, current_block,
          total_addresses,
          addresses_with_balance, is_running, current_file_index,
          current_addresses_file, current_balances_file, th, cmd, pid,
          stopped, last_saved, deleted, ever_active, rot>>

disk == <<addr_files, bal_files, progress_file, other_files>>
counters == <<total_addresses, addresses_with_balance>>
names == <<current_file_index, current_addresses_file, current_balances_file>>
history == <<stopped, last_saved, deleted, ever_active, rot>>

\* ----------------------------------------------------------------- helpers

Max(S) == CHOOSE x \in S : \A y \in S : y <= x

Exists(files, i) == files[i].exists

\* open(path, 'a'): creates the file when missing, keeps its content.
OpenAppend(files, i) ==
    IF Exists(files, i) THEN files ELSE [files EXCEPT ![i] = File(<<>>)]

\* open(path, 'w'): creates the file or truncates it.
OpenWrite(files, i) == [files EXCEPT ![i] = File(<<>>)]

\* f.write(line) through a handle opened for append: lands at the end of the
\* file; a file unlinked since the open takes the line with it.
WriteLine(files, i, line) ==
    IF Exists(files, i) THEN [files EXCEPT ![i].lines = Append(@, line)] ELSE files

\* What get_block_data returns: None, or the JSON with its "blocks" list of
\* segments of transactions of outputs, an output being an address or None.
NoBlock == [present |-> FALSE, blocks |-> <<>>]
Block(blocks) == [present |-> TRUE, blocks |-> blocks]

\* A thread not yet created: pc, and the locals of scan_blocks (cur is its
\* current_block, block_data the response being extracted, fh the log an
\* open handle is on, tmp the value read by a += in progress, pdata the
\* progress_data of save_progress, result the summary it returns); fetches
\* counts the calls of get_block_data of the invocation and check keeps how
\* the last call of check_balance went.
IdleThread == [pc |-> "idle", cur |-> 0, end |-> 0, block_data |-> NoBlock,
               addresses |-> <<>>, fh |-> 0, tmp |-> 0, amount |-> 0,
               check |-> "none", pdata |-> NoData, fetches |-> 0,
               result |-> NoData]

\* Positions of a thread inside the while loop of scan_blocks.
InLoop == {"while", "for", "write_a", "incr_a", "balance", "write_b", "incr_b",
           "save", "dump"}
\* Positions of a thread inside scan_blocks.
InScan == InLoop \cup {"return"}

\* ---------------------------------------------------------- pure functions

\* load_progress raises: json.load gave a value that has no .get (only
\* FileNotFoundError and JSONDecodeError are caught).
load_progress_raises(pf) == pf.state = "value"

\* load_progress: the block of the record, 0 when the file is missing or is
\* not JSON (a file cut short by open(.., 'w') is empty).
load_progress(pf) == IF pf.state = "json" THEN pf.data.current_block ELSE 0

\* A file name is the sequence of its words and separators.
Digits == <<"1", "2", "3", "4", "5", "6", "7", "8", "9">>
AddressesName(i) == <<"addresses", "_", Digits[i], ".", "txt">>
BalancesName(i) ==
    <<"addresses", "_", "with", "_", "balance", "_", Digits[i], ".", "txt">>

\* Names an operator or another tool may have left in data/: a copy of a log
\* of the highest batch, a log without an index, a file of another kind.
OtherNames ==
    {<<"addresses", "_", Digits[MaxIndex], "_", "old", ".", "txt">>,
     <<"addresses", "_", "old", ".", "txt">>,
     <<"notes", ".", "txt">>}

\* The names in data/.
Directory(af, bf, others) ==
    {AddressesName(i) : i \in {j \in Idx : Exists(af, j)}}
        \cup {BalancesName(i) : i \in {j \in Idx : Exists(bf, j)}}
        \cup others

\* glob "addresses_*.txt".
Glob(name) ==
    /\ Len(name) >= 4
    /\ name[1] = "addresses" /\ name[2] = "_"
    /\ name[Len(name) - 1] = "." /\ name[Len(name)] = "txt"

\* s.split(sep)[k]: the k-th piece of s (k = 1 for Python's [0]); <<>> when
\* the piece is empty.  The names here have enough pieces for the k asked.
RECURSIVE Piece(_, _, _)
Piece(s, sep, k) ==
    LET cut == {n \in 1..Len(s) : s[n] = sep}
        first == IF cut = {} THEN Len(s) + 1
                 ELSE CHOOSE n \in cut : \A m \in cut : n <= m
    IN  IF k = 1 THEN SubSeq(s, 1, first - 1)
        ELSE Piece(SubSeq(s, first + 1, Len(s)), sep, k - 1)

\* filename.split('_')[1].split('.')[0]
IndexText(name) == Piece(Piece(name, "_", 2), ".", 1)

\* int(text) succeeds on a numeral (ValueError otherwise).
IsNumeral(text) == Len(text) = 1 /\ \E i \in DOMAIN Digits : Digits[i] = text[1]
int(text) == CHOOSE i \in DOMAIN Digits : Digits[i] = text[1]

\* get_current_file_index: over the names the glob matches, the highest
\* index that parses; 1 if none.
get_current_file_index(af, bf, others) ==
    LET address_files == {n \in Directory(af, bf, others) : Glob(n)}
        indices == {int(IndexText(n)) :
                        n \in {m \in address_files : IsNumeral(IndexText(m))}}
    IN  IF indices = {} THEN 1 ELSE Max(indices)

\* The batches get_available_files lists: both logs exist.  (Taken over
\* the logs the program names; the listing is used where other_files is
\* empty.)
Listed(af, bf) == {i \in Idx : Exists(af, i) /\ Exists(bf, i)}

FileInfo(af, bf, i) ==
    [index |-> i, address_count |-> Len(af[i].lines),
     balance_count |-> Len(bf[i].lines)]

RECURSIVE SortedByIndex(_, _, _)
SortedByIndex(af, bf, S) ==
    IF S = {} THEN <<>>
    ELSE LET m == Max(S)
         IN  Append(SortedByIndex(af, bf, S \ {m}), FileInfo(af, bf, m))

\* get_available_files: one entry per listed batch, ascending by index.
get_available_files(af, bf) == SortedByIndex(af, bf, Listed(af, bf))

\* Python's seq[:stop].
SliceTo(seq, stop) ==
    LET n == Len(seq)
        e == IF stop < 0 THEN (IF n + stop < 0 THEN 0 ELSE n + stop)
             ELSE (IF stop > n THEN n ELSE stop)
    IN  SubSeq(seq, 1, e)

\* cleanup_old_files: the indices it hands to delete_files, lowest first.
files_to_delete(af, bf, keep_count) ==
    LET files == get_available_files(af, bf)
    IN  IF Len(files) <= keep_count THEN {}
        ELSE {f.index : f \in {SliceTo(files, -keep_count)[k] :
                                   k \in 1..Len(SliceTo(files, -keep_count))}}

\* delete_files over a set of indices: os.remove of each log that exists.
delete_files(files, D) == [i \in Idx |-> IF i \in D THEN NoFile ELSE files[i]]

\* cleanup_old_files: the logs it leaves.
cleanup_old_files(af, bf, keep_count) ==
    LET D == files_to_delete(af, bf, keep_count)
    IN  [addr |-> delete_files(af, D), bal |-> delete_files(bf, D)]

\* The responses of the block service the scans are run against.
BlockResponses ==
    {NoBlock, Block(<<>>)} \cup {Block(<< << <<a>> >> >>) : a \in Addresses}

\* The responses extraction is run against: a segment of up to MaxTx
\* transactions (an output has an addr or not), alone or followed by a
\* second segment.
Transactions == {<<>>, <<"X">>, <<"Y">>, <<None, "X">>, <<"X", "Y">>}
Segments == UNION {[1..n -> Transactions] : n \in 0..MaxTx}
SecondSegments == {<< <<"Y">> >>, << <<"X">>, <<>>, <<None>>, <<"Y">> >>}
SampledResponses ==
    {NoBlock} \cup {Block(<<seg>>) : seg \in Segments}
              \cup {Block(<<seg, second>>) : seg \in Segments, second \in SecondSegments}

\* extract_addresses_from_block without the [:3] of line 126.
extract_every_transaction(block_data) ==
    UNION { UNION { {tx[o] : o \in 1..Len(tx)} \ {None} :
                    tx \in {seg[k] : k \in 1..Len(seg)} } :
            seg \in {block_data.blocks[s] : s \in 1..Len(block_data.blocks)} }

\* extract_addresses_from_block: the addresses of the outputs of the first 3
\* transactions of every segment.
extract_addresses_from_block(block_data) ==
    UNION { UNION { {tx[o] : o \in 1..Len(tx)} \ {None} :
                    tx \in {seg[k] : k \in 1..(IF Len(seg) < 3 THEN Len(seg) ELSE 3)} } :
            seg \in {block_data.blocks[s] : s \in 1..Len(block_data.blocks)} }

\* list(set): the set in some order.
Orderings(S) ==
    {q \in [1..Cardinality(S) -> S] : \A a \in S : \E k \in DOMAIN q : q[k] = a}

\* What the balance service does on a request: it answers with the
\* final_balance of the address, or the request times out, or the status
\* is not 200, or the address is not in the answer, or the answer has
\* another shape (the entry of the address is null).
Answer(final_balance) == [kind |-> "ok", final_balance |-> final_balance]
Failure(kind) == [kind |-> kind, final_balance |-> 0]
Balances == {Answer(b) : b \in Subunits}
BalanceFailures == {Failure(k) : k \in {"timeout", "status", "absent", "malformed"}}

\* check_balance raises: only requests.RequestException is caught, and
\* balance_data.get on a value that is not an object is an AttributeError.
check_balance_raises(response) == response.kind = "malformed"

\* check_balance: the final_balance of the answer, 0 on the failures it
\* catches or tests for.
check_balance(response) ==
    IF response.kind = "ok" THEN response.final_balance ELSE 0

\* check_balance(address) > 0: final_balance / 100000000 is positive when
\* its whole part or its fraction is.
HasBalance(final_balance) ==
    final_balance \div SubunitScale > 0 \/ final_balance % SubunitScale > 0

\* Lines of address logs written by the running process.
RECURSIVE OwnLines(_, _)
OwnLines(S, p) ==
    IF S = {} THEN 0
    ELSE LET i == CHOOSE x \in S : TRUE
             n == Cardinality({k \in 1..Len(addr_files[i].lines) :
                                  addr_files[i].lines[k].pid = p})
         IN  n + OwnLines(S \ {i}, p)

\* The history of the last rotate: the index that was active, its entry in
\* the listing when rotate began, the new index, and whether a scan thread
\* wrote to a log since.
NoRotate == [state |-> "none", prior |-> 0, listed |-> FALSE,
             address_count |-> 0, balance_count |-> 0, new |-> 0, wrote |-> FALSE]

\* -------------------------------------------------------------------- Init

\* A first deployment: the data directory is empty when __init__ runs, which
\* creates the two logs of batch 1.
Init ==
    /\ addr_files = [i \in Idx |-> IF i = 1 THEN File(<<>>) ELSE NoFile]
    /\ bal_files = [i \in Idx |-> IF i = 1 THEN File(<<>>) ELSE NoFile]
    /\ progress_file = Absent
    /\ other_files = {}
    /\ current_block = 0
    /\ total_addresses = 0
    /\ addresses_with_balance = 0
    /\ is_running = FALSE
    /\ current_file_index = 1
    /\ current_addresses_file = 1
    /\ current_balances_file = 1
    /\ th = [t \in Threads |-> IdleThread]
    /\ cmd = "idle"
    /\ pid = 0
    /\ stopped = {}
    /\ last_saved = 0
    /\ deleted = FALSE
    /\ ever_active = {1}
    /\ rot = NoRotate

\* A later deployment: __init__ over the data directory of a process that
\* found block 0 absent and block 1 without addresses, and saved block 1.
InitResumed ==
    /\ addr_files = [i \in Idx |-> IF i = 1 THEN File(<<>>) ELSE NoFile]
    /\ bal_files = [i \in Idx |-> IF i = 1 THEN File(<<>>) ELSE NoFile]
    /\ progress_file = Json([current_block |-> 1, total_addresses |-> 0,
                             addresses_with_balance |-> 0, current_file_index |-> 1])
    /\ other_files = {}
    /\ current_block = 1
    /\ total_addresses = 0
    /\ addresses_with_balance = 0
    /\ is_running = FALSE
    /\ current_file_index = 1
    /\ current_addresses_file = 1
    /\ current_balances_file = 1
    /\ th = [t \in Threads |-> IdleThread]
    /\ cmd = "idle"
    /\ pid = 0
    /\ stopped = {}
    /\ last_saved = 1
    /\ deleted = FALSE
    /\ ever_active = {1}
    /\ rot = NoRotate

\* What a log left in data/ may hold: nothing, or a line of an earlier
\* process.
AddressLogs == {NoFile, File(<<>>), File(<<[addr |-> "X", pid |-> -1]>>)}
BalanceLogs ==
    {NoFile, File(<<>>), File(<<[addr |-> "X", amount |-> 150000000, pid |-> -1]>>)}
\* What progress.json may hold when a process starts.
ProgressContents ==
    {Absent, Truncated, Invalid, NotRecord}
        \cup {Json([current_block |-> b, total_addresses |-> 0,
                    addresses_with_balance |-> 0, current_file_index |-> 1]) :
                   b \in 0..1}

\* No process is up yet, over a data directory as earlier deployments and
\* the operator may have left it; the attributes get their values in
\* __init__ (Restart).
InitDirectory ==
    /\ addr_files \in [Idx -> AddressLogs]
    /\ bal_files \in [Idx -> BalanceLogs]
    /\ progress_file \in ProgressContents
    /\ other_files \in SUBSET OtherNames
    /\ current_block = 0
    /\ total_addresses = 0
    /\ addresses_with_balance = 0
    /\ is_running = FALSE
    /\ current_file_index = 1
    /\ current_addresses_file = 1
    /\ current_balances_file = 1
    /\ th = [t \in Threads |-> IdleThread]
    /\ cmd = "down"
    /\ pid = 0
    /\ stopped = {}
    /\ last_saved = load_progress(progress_file)
    /\ deleted = FALSE
    /\ ever_active = {}
    /\ rot = NoRotate

\* The end-to-end scenario: the scan starts at block 100 with a run limit
\* of 2; the service has block 100 with the one output address X, fails on
\* block 101, and reports a balance of 0 for X.
Scenario == [start_block |-> 100, run_limit |-> 2, address |-> "X", final_balance |-> 0]

ScenarioBlocks(height) ==
    IF height = Scenario.start_block
    THEN {Block(<< << <<Scenario.address>> >> >>)}
    ELSE IF height = Scenario.start_block + 1 THEN {NoBlock}
    ELSE BlockResponses

\* The deployment of the scenario: batch 1 is empty and the progress
\* record holds the start block.
InitScenario ==
    /\ addr_files = [i \in Idx |-> IF i = 1 THEN File(<<>>) ELSE NoFile]
    /\ bal_files = [i \in Idx |-> IF i = 1 THEN File(<<>>) ELSE NoFile]
    /\ progress_file = Json([current_block |-> Scenario.start_block,
                             total_addresses |-> 0, addresses_with_balance |-> 0,
                             current_file_index |-> 1])
    /\ other_files = {}
    /\ current_block = Scenario.start_block
    /\ total_addresses = 0
    /\ addresses_with_balance = 0
    /\ is_running = FALSE
    /\ current_file_index = 1
    /\ current_addresses_file = 1
    /\ current_balances_file = 1
    /\ th = [t \in Threads |-> IdleThread]
    /\ cmd = "idle"
    /\ pid = 0
    /\ stopped = {}
    /\ last_saved = Scenario.start_block
    /\ deleted = FALSE
    /\ ever_active = {1}
    /\ rot = NoRotate

\* ------------------------------------------------------- command handlers

\* A scan thread wrote to a log: noted in the history of the last rotate.
NoteWrite(r) == IF r.state = "none" THEN r ELSE [r EXCEPT !.wrote = TRUE]

\* The thread of the pool the next accepted start request creates.
FreeThread(pool) ==
    CHOOSE t \in pool :
        th[t].pc = "idle" /\ \A u \in pool : th[u].pc = "idle" => t <= u

\* start_scan_command (main.py 216-229): rejected while is_running, else a
\* thread is started on scan_blocks_thread.
start_scan_command(pool) ==
    /\ cmd = "idle"
    /\ ~is_running
    /\ \E t \in pool : th[t].pc = "idle"
    /\ th' = [th EXCEPT ![FreeThread(pool)].pc = "start"]
    /\ UNCHANGED <<disk, current_block, counters, is_running, names, cmd, pid, history>>

\* stop_scan_command (main.py 231-238) and stop_scanning (274-276).
stop_scan_command ==
    /\ cmd = "idle"
    /\ is_running
    /\ is_running' = FALSE
    /\ stopped' = stopped \cup {t \in Threads : th[t].pc \in InLoop}
    /\ UNCHANGED <<disk, current_block, counters, names, th, cmd, pid,
                   last_saved, deleted, ever_active, rot>>

\* get_files_command (main.py 92-121) up to its call of create_new_files, and
\* line 70 of create_new_files.
get_files_command ==
    /\ cmd = "idle"
    /\ Exists(addr_files, current_file_index)
    /\ Len(addr_files[current_file_index].lines) > 0
    /\ current_file_index < MaxIndex
    /\ current_file_index' = current_file_index + 1
    /\ cmd' = "new_71"
    /\ rot' = LET i == current_file_index
                  l == i \in Listed(addr_files, bal_files)
              IN  [state |-> "running", prior |-> i, listed |-> l,
                   address_count |-> Len(addr_files[i].lines),
                   balance_count |-> Len(bal_files[i].lines),
                   new |-> i + 1, wrote |-> FALSE]
    /\ UNCHANGED <<disk, current_block, counters, is_running,
                   current_addresses_file, current_balances_file, th, pid,
                   stopped, last_saved, deleted, ever_active>>

\* create_new_files, line 71.
create_new_files_71 ==
    /\ cmd = "new_71"
    /\ current_addresses_file' = current_file_index
    /\ cmd' = "new_72"
    /\ UNCHANGED <<disk, current_block, counters, is_running, current_file_index,
                   current_balances_file, th, pid, history>>

\* create_new_files, line 72.
create_new_files_72 ==
    /\ cmd = "new_72"
    /\ current_balances_file' = current_file_index
    /\ cmd' = "new_76a"
    /\ UNCHANGED <<disk, current_block, counters, is_running, current_file_index,
                   current_addresses_file, th, pid, history>>

\* create_new_files, lines 75-77, the address log.
create_new_files_76a ==
    /\ cmd = "new_76a"
    /\ addr_files' = OpenWrite(addr_files, current_addresses_file)
    /\ cmd' = "new_76b"
    /\ UNCHANGED <<bal_files, progress_file, other_files, current_block, counters, is_running,
                   names, th, pid, history>>

\* create_new_files that creates the address log only.
create_new_files_76b_no_balance ==
    /\ cmd = "new_76b"
    /\ cmd' = "idle"
    /\ rot' = [rot EXCEPT !.state = "done"]
    /\ ever_active' = ever_active \cup {current_file_index}
    /\ UNCHANGED <<disk, current_block, counters, is_running, names, th, pid,
                   stopped, last_saved, deleted>>

\* create_new_files, lines 75-80, the balance log, and the return.
create_new_files_76b ==
    /\ cmd = "new_76b"
    /\ bal_files' = OpenWrite(bal_files, current_balances_file)
    /\ cmd' = "idle"
    /\ rot' = [rot EXCEPT !.state = "done"]
    /\ ever_active' = ever_active \cup {current_file_index}
    /\ UNCHANGED <<addr_files, progress_file, other_files, current_block, counters, is_running,
                   names, th, pid, stopped, last_saved, deleted>>

\* cleanup_command (main.py 167-180) with cleanup_old_files (256-272) and the
\* delete_files (239-254) it calls.
cleanup_command(keep_count) ==
    /\ cmd = "idle"
    /\ LET left == cleanup_old_files(addr_files, bal_files, keep_count)
       IN  /\ addr_files' = left.addr
           /\ bal_files' = left.bal
           /\ deleted' = (deleted \/ left.addr # addr_files \/ left.bal # bal_files)
    /\ rot' = NoRotate
    /\ UNCHANGED <<progress_file, other_files, current_block, counters, is_running, names, th,
                   cmd, pid, stopped, last_saved, ever_active>>

\* The process dies at any point (its daemon threads with it) and is started
\* again: BlockchainScanner.__init__ (10-30) with initialize_current_files
\* (53-66) over the data directory as it was left.  When load_progress
\* raises, so does __init__ (line 19) and the process does not come up.
Restart ==
    /\ pid < MaxRestarts
    /\ pid' = pid + 1
    /\ total_addresses' = 0
    /\ addresses_with_balance' = 0
    /\ is_running' = FALSE
    /\ th' = [t \in Threads |-> IdleThread]
    /\ stopped' = {}
    /\ deleted' = FALSE
    /\ rot' = NoRotate
    /\ IF load_progress_raises(progress_file)
       THEN /\ cmd' = "failed"
            /\ current_block' = 0
            /\ UNCHANGED <<addr_files, bal_files, names, ever_active>>
       ELSE /\ cmd' = "idle"
            /\ current_block' = load_progress(progress_file)
            /\ LET i == get_current_file_index(addr_files, bal_files, other_files)
               IN  /\ current_file_index' = i
                   /\ current_addresses_file' = i
                   /\ current_balances_file' = i
                   /\ addr_files' = OpenAppend(addr_files, i)
                   /\ bal_files' = OpenAppend(bal_files, i)
                   /\ ever_active' = ever_active \cup {i}
    /\ UNCHANGED <<progress_file, other_files, last_saved>>

\* ------------------------------------------------------------ scan thread

\* scan_blocks_thread (main.py 185): start_block = load_progress(); when it
\* raises, the handler of lines 210-214 reports it and the thread ends.
thread_start(t) ==
    /\ th[t].pc = "start"
    /\ IF load_progress_raises(progress_file)
       THEN th' = [th EXCEPT ![t].pc = "done"]
       ELSE th' = [th EXCEPT ![t].pc = "enter",
                             ![t].cur = load_progress(progress_file)]
    /\ UNCHANGED <<disk, current_block, counters, is_running, names, cmd, pid, history>>

\* scan_blocks 153-157: the flag is set, end_block = start_block + run limit.
scan_blocks_enter(t, run_limit) ==
    /\ th[t].pc = "enter"
    /\ is_running' = TRUE
    /\ th' = [th EXCEPT ![t].pc = "while", ![t].end = th[t].cur + run_limit]
    /\ UNCHANGED <<disk, current_block, counters, names, cmd, pid, history>>

scan_enter(t) == scan_blocks_enter(t, RunLimit)

\* scan_while with the height left as it is when the fetch returns None.
scan_while_no_advance(t) ==
    /\ th[t].pc = "while"
    /\ IF th[t].cur <= th[t].end /\ is_running
       THEN \E block_data \in BlockResponses :
               IF ~block_data.present
               THEN th' = [th EXCEPT ![t].fetches = @ + 1]
               ELSE \E q \in Orderings(extract_addresses_from_block(block_data)) :
                       th' = [th EXCEPT ![t].pc = "for", ![t].addresses = q,
                                        ![t].block_data = block_data,
                                        ![t].fetches = @ + 1]
       ELSE th' = [th EXCEPT ![t].pc = "return"]
    /\ UNCHANGED <<disk, current_block, counters, is_running, names, cmd, pid,
                   history>>

\* scan_blocks 160-172 against a block service that answers with one of
\* responses: the loop test, then the fetch; on None the height advances
\* and the loop continues, else the addresses are extracted.
scan_fetch(t, responses) ==
    /\ th[t].pc = "while"
    /\ IF th[t].cur <= th[t].end /\ is_running
       THEN \E block_data \in responses :
               IF ~block_data.present
               THEN th' = [th EXCEPT ![t].cur = @ + 1, ![t].fetches = @ + 1]
               ELSE \E q \in Orderings(extract_addresses_from_block(block_data)) :
                       th' = [th EXCEPT ![t].pc = "for", ![t].addresses = q,
                                        ![t].block_data = block_data,
                                        ![t].fetches = @ + 1]
       ELSE th' = [th EXCEPT ![t].pc = "return"]
    /\ UNCHANGED <<disk, current_block, counters, is_running, names, cmd, pid, history>>

scan_while(t) == scan_fetch(t, BlockResponses)

\* scan_blocks 175-177: the next address, and the open of the address log
\* named by current_addresses_file; past the last address, on to the save.
\* (block_data is not read again once the addresses are extracted.)
scan_for(t) ==
    /\ th[t].pc = "for"
    /\ IF th[t].addresses = <<>>
       THEN /\ th' = [th EXCEPT ![t].pc = "save", ![t].block_data = NoBlock,
                                ![t].check = "none"]
            /\ UNCHANGED addr_files
       ELSE /\ th' = [th EXCEPT ![t].pc = "write_a", ![t].fh = current_addresses_file,
                                ![t].block_data = NoBlock, ![t].check = "none"]
            /\ addr_files' = OpenAppend(addr_files, current_addresses_file)
    /\ UNCHANGED <<bal_files, progress_file, other_files, current_block, counters,
                   is_running, names, cmd, pid, history>>

\* scan_blocks 178: the line is written through the open handle; 179,
\* self.total_addresses += 1: the attribute is read.
scan_write_address(t) ==
    /\ th[t].pc = "write_a"
    /\ addr_files' = WriteLine(addr_files, th[t].fh,
                               [addr |-> Head(th[t].addresses), pid |-> pid])
    /\ th' = [th EXCEPT ![t].pc = "incr_a", ![t].fh = 0, ![t].tmp = total_addresses]
    /\ rot' = NoteWrite(rot)
    /\ UNCHANGED <<bal_files, progress_file, other_files, current_block, counters,
                   is_running, names, cmd, pid, stopped, last_saved, deleted,
                   ever_active>>

\* scan_blocks 179, self.total_addresses += 1: the store.
scan_incr_total(t) ==
    /\ th[t].pc = "incr_a"
    /\ total_addresses' = th[t].tmp + 1
    /\ th' = [th EXCEPT ![t].pc = "balance", ![t].tmp = 0]
    /\ UNCHANGED <<disk, current_block, addresses_with_balance, is_running, names,
                   cmd, pid, history>>

\* scan_blocks 182-184 against a balance service that does one of
\* responses: check_balance, and with a positive balance the open of the
\* balance log named by current_balances_file; when check_balance raises,
\* the handler of line 196 ends the loop.
scan_check(t, responses) ==
    /\ th[t].pc = "balance"
    /\ \E response \in responses :
          IF check_balance_raises(response)
          THEN /\ th' = [th EXCEPT ![t].pc = "return", ![t].check = response.kind]
               /\ UNCHANGED bal_files
          ELSE IF HasBalance(check_balance(response))
          THEN /\ th' = [th EXCEPT ![t].pc = "write_b", ![t].fh = current_balances_file,
                                   ![t].amount = check_balance(response),
                                   ![t].check = response.kind]
               /\ bal_files' = OpenAppend(bal_files, current_balances_file)
          ELSE /\ th' = [th EXCEPT ![t].pc = "for", ![t].addresses = Tail(@),
                                   ![t].check = response.kind]
               /\ UNCHANGED bal_files
    /\ UNCHANGED <<addr_files, progress_file, other_files, current_block, counters,
                   is_running, names, cmd, pid, history>>

scan_balance(t) == scan_check(t, Balances)

\* scan_blocks 185: the balance line is written through the open handle; 186,
\* self.addresses_with_balance += 1: the attribute is read.
scan_write_balance(t) ==
    /\ th[t].pc = "write_b"
    /\ bal_files' = WriteLine(bal_files, th[t].fh,
                              [addr |-> Head(th[t].addresses),
                               amount |-> th[t].amount, pid |-> pid])
    /\ th' = [th EXCEPT ![t].pc = "incr_b", ![t].fh = 0, ![t].amount = 0,
                        ![t].tmp = addresses_with_balance]
    /\ rot' = NoteWrite(rot)
    /\ UNCHANGED <<addr_files, progress_file, other_files, current_block, counters,
                   is_running, names, cmd, pid, stopped, last_saved, deleted,
                   ever_active>>

\* scan_blocks 186, self.addresses_with_balance += 1: the store; the for loop
\* goes on to the next address.
scan_incr_with_balance(t) ==
    /\ th[t].pc = "incr_b"
    /\ addresses_with_balance' = th[t].tmp + 1
    /\ th' = [th EXCEPT ![t].pc = "for", ![t].tmp = 0, ![t].addresses = Tail(@)]
    /\ UNCHANGED <<disk, current_block, total_addresses, is_running, names, cmd,
                   pid, history>>

\* save_progress 93-100: the record is built and progress.json is opened
\* with 'w', which empties it.
save_progress_open(t) ==
    /\ th[t].pc = "save"
    /\ th' = [th EXCEPT ![t].pc = "dump",
                        ![t].pdata = [current_block |-> th[t].cur,
                                      total_addresses |-> total_addresses,
                                      addresses_with_balance |-> addresses_with_balance,
                                      current_file_index |-> current_file_index]]
    /\ progress_file' = Truncated
    /\ UNCHANGED <<addr_files, bal_files, other_files, current_block, counters,
                   is_running, names, cmd, pid, history>>

\* save_progress_dump that writes the height the scan goes to next.
save_progress_dump_next_block(t) ==
    /\ th[t].pc = "dump"
    /\ progress_file' = Json([th[t].pdata EXCEPT !.current_block = @ + 1])
    /\ last_saved' = th[t].pdata.current_block + 1
    /\ th' = [th EXCEPT ![t].pc = "while", ![t].cur = @ + 1, ![t].pdata = NoData]
    /\ UNCHANGED <<addr_files, bal_files, other_files, current_block, counters,
                   is_running, names, cmd, pid, stopped, deleted, ever_active, rot>>

\* save_progress 101: the record is written; scan_blocks 191-194: the height
\* advances.
save_progress_dump(t) ==
    /\ th[t].pc = "dump"
    /\ progress_file' = Json(th[t].pdata)
    /\ last_saved' = th[t].pdata.current_block
    /\ th' = [th EXCEPT ![t].pc = "while", ![t].cur = @ + 1, ![t].pdata = NoData]
    /\ UNCHANGED <<addr_files, bal_files, other_files, current_block, counters,
                   is_running, names, cmd, pid, stopped, deleted, ever_active, rot>>

\* The statements of the loop that call the network or the file system.
Raising == {"while", "for", "write_a", "balance", "write_b", "save", "dump"}

\* scan_except with a handler that does not catch the exception: it leaves
\* scan_blocks, and the thread ends in the handler of scan_blocks_thread.
scan_except_uncaught(t) ==
    /\ th[t].pc \in Raising
    /\ th' = [th EXCEPT ![t].pc = "done", ![t].fh = 0]
    /\ UNCHANGED <<disk, current_block, counters, is_running, names, cmd, pid, history>>

\* scan_blocks 196-197: a statement of the loop raises (the fetch an error
\* get_block_data does not catch, an open or a write an OSError) before it
\* had an effect, and the handler of the try ends the loop.
scan_except(t) ==
    /\ th[t].pc \in Raising
    /\ th' = [th EXCEPT ![t].pc = "return", ![t].fh = 0]
    /\ UNCHANGED <<disk, current_block, counters, is_running, names, cmd, pid, history>>

\* scan_blocks 199-205: the flag is cleared and the summary returned; the
\* thread ends.
scan_return(t) ==
    /\ th[t].pc = "return"
    /\ is_running' = FALSE
    /\ th' = [th EXCEPT ![t] =
                 [IdleThread EXCEPT
                     !.pc = "done",
                     !.result = [current_block |-> th[t].cur,
                                 total_addresses |-> total_addresses,
                                 addresses_with_balance |-> addresses_with_balance,
                                 current_file_index |-> current_file_index]]]
    /\ stopped' = stopped \ {t}
    /\ UNCHANGED <<disk, current_block, counters, names, cmd, pid,
                   last_saved, deleted, ever_active, rot>>

\* ------------------------------------------------------------ specification

\* A step of a worker thread.
thread_step(t) ==
    \/ thread_start(t)
    \/ scan_enter(t)
    \/ scan_while(t)
    \/ scan_for(t)
    \/ scan_write_address(t)
    \/ scan_incr_total(t)
    \/ scan_balance(t)
    \/ scan_write_balance(t)
    \/ scan_incr_with_balance(t)
    \/ save_progress_open(t)
    \/ save_progress_dump(t)
    \/ scan_return(t)

\* The bot with every command and restarts, a scan being started once the
\* previous worker thread has ended.
Next ==
    \/ start_scan_command(OneThread)
    \/ stop_scan_command
    \/ get_files_command
    \/ create_new_files_71
    \/ create_new_files_72
    \/ create_new_files_76a
    \/ create_new_files_76b
    \/ \E k \in KeepCounts : cleanup_command(k)
    \/ Restart
    \/ \E t \in OneThread : thread_step(t)

Spec == Init /\ [][Next]_vars

\* The start and stop commands with the worker threads they race with.
NextRace ==
    \/ start_scan_command(Threads)
    \/ stop_scan_command
    \/ \E t \in Threads : thread_step(t)

SpecRace == Init /\ [][NextRace]_vars

\* One worker thread with the start, stop and download commands.
NextRotate ==
    \/ start_scan_command(OneThread)
    \/ stop_scan_command
    \/ get_files_command
    \/ create_new_files_71
    \/ create_new_files_72
    \/ create_new_files_76a
    \/ create_new_files_76b
    \/ \E t \in OneThread : thread_step(t)

SpecRotate == Init /\ [][NextRotate]_vars

\* One worker thread with the start and stop commands and restarts, over a
\* data directory that holds the progress of an earlier process.
NextResume ==
    \/ start_scan_command(OneThread)
    \/ stop_scan_command
    \/ Restart
    \/ \E t \in OneThread : thread_step(t)

SpecResume == InitResumed /\ [][NextResume]_vars

\* The start of a process over a data directory it finds, and of a worker
\* thread up to its load of the progress record.
NextStartup ==
    \/ Restart
    \/ start_scan_command(OneThread)
    \/ \E t \in OneThread : thread_start(t)

SpecStartup == InitDirectory /\ [][NextStartup]_vars

\* A worker thread up to the extraction of the addresses of a response.
NextExtract ==
    \/ start_scan_command(OneThread)
    \/ \E t \in OneThread :
          \/ thread_start(t)
          \/ scan_enter(t)
          \/ scan_fetch(t, SampledResponses)

SpecExtract == Init /\ [][NextExtract]_vars

\* One worker thread with the start and stop commands, against services and
\* a file system that fail: any statement of the loop may raise, and the
\* balance service may fail in each of its ways.
NextFaults ==
    \/ start_scan_command(OneThread)
    \/ stop_scan_command
    \/ \E t \in OneThread :
          \/ thread_start(t)
          \/ scan_enter(t)
          \/ scan_while(t)
          \/ scan_for(t)
          \/ scan_write_address(t)
          \/ scan_incr_total(t)
          \/ scan_check(t, Balances \cup BalanceFailures)
          \/ scan_write_balance(t)
          \/ scan_incr_with_balance(t)
          \/ save_progress_open(t)
          \/ save_progress_dump(t)
          \/ scan_except(t)
          \/ scan_return(t)

SpecFaults == Init /\ [][NextFaults]_vars

\* The scan of the end-to-end scenario, with the start and stop commands and
\* a restart of the process.
\* scan_blocks is given the run limit of the scenario either as line 157
\* uses its own (end_block = start_block + 2) or as a number of heights
\* (end_block = start_block + 1).
NextScenario ==
    \/ start_scan_command(OneThread)
    \/ stop_scan_command
    \/ Restart
    \/ \E t \in OneThread :
          \/ thread_start(t)
          \/ \E run_limit \in {Scenario.run_limit - 1, Scenario.run_limit} :
                scan_blocks_enter(t, run_limit)
          \/ scan_fetch(t, ScenarioBlocks(th[t].cur))
          \/ scan_for(t)
          \/ scan_write_address(t)
          \/ scan_incr_total(t)
          \/ scan_check(t, {Answer(Scenario.final_balance)})
          \/ save_progress_open(t)
          \/ save_progress_dump(t)
          \/ scan_return(t)

SpecScenario == InitScenario /\ [][NextScenario]_vars

\* ------------------------------------------------------------------ claims

\* C1: at most one scan loop is active at any time: a start request made
\* while a scan started by an earlier request is still active starts no
\* second loop.
C1_OneScanLoop == Cardinality({t \in Threads : th[t].pc \in InScan}) <= 1

\* C2: a scan that was running when a stop request was made begins no
\* further block iteration: at its next loop test it leaves the loop,
\* whatever start and stop requests came since.
C2_StopEndsScan ==
    [][\A t \in Threads :
          (t \in stopped /\ th[t].pc = "while" /\ th'[t] # th[t])
              => th'[t].pc = "return"]_vars

\* C3: a fetch that returns absent leaves the address logs, the balance
\* logs, both counters and the active batch index unchanged, and advances
\* the height of the scan by exactly one.
C3_AbsentFetchFrame ==
    [][\A t \in Threads :
          (th[t].pc = "while" /\ th'[t].pc = "while"
                              /\ th'[t].fetches = th[t].fetches + 1)
              => /\ th'[t].cur = th[t].cur + 1
                 /\ UNCHANGED <<addr_files, bal_files, total_addresses,
                                addresses_with_balance, current_file_index>>]_vars

\* C3, its case: a scan is past an absent fetch (its height advanced and
\* nothing was saved).
C3_Witness ==
    \E t \in Threads :
        th[t].pc = "while" /\ th[t].fetches = 1 /\ th[t].cur = 1
                           /\ progress_file.state = "absent"

\* C4: the persisted last_processed_block never decreases: every completed
\* progress save writes a block number at least the one of the save before.
C4_ProgressNeverDecreases == [][last_saved' >= last_saved]_vars

\* C5: whenever no rotate is under way, both logs of the active batch exist.
C5_ActiveLogsExist ==
    cmd = "idle" => /\ Exists(addr_files, current_file_index)
                    /\ Exists(bal_files, current_file_index)

\* C6: absent deletion, total_addresses equals the number of address-log
\* lines of this process over all batches (taken when no thread is between
\* writing a line and counting it).
C6_TotalMatchesLines ==
    (~deleted /\ \A t \in Threads : th[t].pc # "incr_a")
        => total_addresses = OwnLines(Idx, pid)

\* C7: once rotate has returned, no log of a batch before the active one is
\* appended to or truncated.
C7_EarlierBatchesImmutable ==
    [][\A i \in Idx :
          (cmd = "idle" /\ cmd' = "idle" /\ i < current_file_index)
              => (addr_files'[i] = addr_files[i] /\ bal_files'[i] = bal_files[i])]_vars

\* C8: a load at any point relative to a save, a crash in the middle of one
\* included, yields at least the block of the last completed save.
C8_LoadSeesCompletedSave ==
    [][pid' # pid => current_block' >= last_saved]_vars

\* C9: from a state with no rotate under way the active batch index never
\* decreases, over rotate, cleanup and restart; and the index rotate moves
\* to is above every index that exists or was active before.
C9_IndexMonotone ==
    [][/\ cmd = "idle" => current_file_index' >= current_file_index
       /\ (cmd = "idle" /\ cmd' = "new_71")
              => \A i \in Idx :
                    (i \in ever_active \/ Exists(addr_files, i) \/ Exists(bal_files, i))
                        => current_file_index' > i]_vars

\* What list_batches shows after the last rotate: the new index with zero
\* counts, and the index that was active before with the counts it had when
\* rotate began.
ListedAfterRotate ==
    LET files == get_available_files(addr_files, bal_files)
        entries == {files[k] : k \in 1..Len(files)}
    IN  /\ [index |-> rot.new, address_count |-> 0, balance_count |-> 0] \in entries
        /\ rot.listed =>
              [index |-> rot.prior, address_count |-> rot.address_count,
               balance_count |-> rot.balance_count] \in entries

\* C10 as stated: rotate() followed by list_batches() always lists the new
\* index with zero counts and the prior index with its counts unchanged.
C10_RotateThenList == rot.state = "done" => ListedAfterRotate

\* C10 as amended: the same, when no scan thread wrote a log line since
\* rotate began.
C10_RotateThenListNoWrite == (rot.state = "done" /\ ~rot.wrote) => ListedAfterRotate

\* C10, its case: rotate has returned, the prior batch was listed with
\* lines in it, and no scan thread wrote since rotate began.
C10_Witness ==
    /\ rot.state = "done"
    /\ ~rot.wrote
    /\ rot.listed
    /\ rot.address_count > 0
    /\ current_file_index = rot.new

\* The keep_count highest of a set of batch indices.
Highest(S, keep_count) == {i \in S : Cardinality({j \in S : j > i}) < keep_count}

\* C11: for every keep_count, cleanup(keep_count) over the batches listed
\* leaves exactly the keep_count highest of them listed (all of them when
\* there are at most keep_count), and a second cleanup with the same
\* keep_count right after it changes nothing.
C11_CleanupKeepsHighest ==
    \A keep_count \in KeepCounts :
        LET left == cleanup_old_files(addr_files, bal_files, keep_count)
        IN  /\ Listed(left.addr, left.bal)
                  = Highest(Listed(addr_files, bal_files), keep_count)
            /\ cleanup_old_files(left.addr, left.bal, keep_count) = left

\* C12: one invocation of the scan loop fetches at most run limit block
\* heights.
C12_FetchesWithinRunLimit == \A t \in Threads : th[t].fetches <= RunLimit

\* C13: the scan of the scenario (the first of the deployment), once it is
\* past blocks 100 and 101 and has returned, leaves the address log with exactly the one line X, the
\* balance log empty, the progress record at block 101, total_addresses at 1
\* and addresses_with_balance at 0.
C13_Scenario ==
    \A t \in OneThread :
        (/\ pid = 0
         /\ th[t].pc = "done"
         /\ th[t].result.current_block > Scenario.start_block + 1)
            => /\ addr_files[1].lines = <<[addr |-> Scenario.address, pid |-> pid]>>
               /\ bal_files[1].lines = <<>>
               /\ progress_file.state = "json"
               /\ progress_file.data.current_block = Scenario.start_block + 1
               /\ total_addresses = 1
               /\ addresses_with_balance = 0

\* C14: scan_blocks never raises to its caller: whatever happens inside the
\* loop, a thread leaves the loop only to the return of scan_blocks, and
\* when it returns the running flag is false and the summary holds the
\* height reached, both totals and the active batch index.
C14_ScanReturnsSummary ==
    [][\A t \in Threads :
          /\ (th[t].pc \in InLoop /\ th'[t].pc \notin InLoop) => th'[t].pc = "return"
          /\ (th[t].pc = "return" /\ th'[t].pc # "return")
                => /\ th'[t].pc = "done"
                   /\ ~is_running'
                   /\ th'[t].result =
                          [current_block |-> th[t].cur,
                           total_addresses |-> total_addresses',
                           addresses_with_balance |-> addresses_with_balance',
                           current_file_index |-> current_file_index']]_vars

\* C14, its case: a scan that appended an address has returned after the
\* write of the progress record failed (the record is left cut short).
C14_Witness ==
    \E t \in Threads :
        /\ th[t].pc = "done"
        /\ th[t].result.total_addresses = 1
        /\ progress_file.state = "truncated"
        /\ ~is_running

\* C17: a balance check that fails (timeout, status, address absent, answer
\* of another shape) is not fatal: the address stays in the address log and
\* counted, nothing is appended to the balance log and the counter of
\* balances stays, and the loop goes on with the next address of the block
\* (and so to the save of the block).
C17_BalanceFailureNotFatal ==
    [][\A t \in Threads :
          (th[t].pc = "balance" /\ th'[t].check \in {r.kind : r \in BalanceFailures})
              => /\ th'[t].pc = "for"
                 /\ th'[t].addresses = Tail(th[t].addresses)
                 /\ \E k \in DOMAIN addr_files'[current_addresses_file].lines :
                        addr_files'[current_addresses_file].lines[k].addr
                            = Head(th[t].addresses)
                 /\ UNCHANGED <<bal_files, total_addresses, addresses_with_balance>>]_vars

\* C15: load never fails its caller: __init__ and the worker thread get a
\* block from it whatever progress.json holds, and block 0 whenever the
\* file is missing, empty or cut short, not JSON, or JSON that is not a
\* record.
C15_LoadNeverFails ==
    [][/\ pid' # pid
          => /\ cmd' = "idle"
             /\ progress_file.state # "json" => current_block' = 0
       /\ \A t \in Threads :
             (th[t].pc = "start" /\ th'[t].pc # "start" /\ pid' = pid)
                => /\ th'[t].pc = "enter"
                   /\ progress_file.state # "json" => th'[t].cur = 0]_vars

\* C18: on a start that comes up, the active index is the highest index
\* among the address logs that exist (1 if none; other names are skipped),
\* both logs of that batch exist afterwards, and every log that existed
\* keeps its content.
C18_ResumeHighestBatch ==
    [][(pid' # pid /\ cmd' = "idle")
          => LET logs == {i \in Idx : Exists(addr_files, i)}
             IN  /\ current_file_index' = (IF logs = {} THEN 1 ELSE Max(logs))
                 /\ Exists(addr_files', current_file_index')
                 /\ Exists(bal_files', current_file_index')
                 /\ \A i \in Idx :
                       /\ Exists(addr_files, i) => addr_files'[i] = addr_files[i]
                       /\ Exists(bal_files, i) => bal_files'[i] = bal_files[i]]_vars

SampledOutputs(blocks) ==
    UNION {UNION {{<<seg, tx, out>> : out \in {o \in DOMAIN blocks[seg][tx] :
                                                  blocks[seg][tx][o] # None}} :
                  tx \in {k \in DOMAIN blocks[seg] : k <= 3}} :
           seg \in DOMAIN blocks}

C20_ResumeAfterCheckpoint ==
    [][\A t \in Threads :
          (/\ th[t].pc = "write_a" /\ th'[t].pc = "incr_a"
           /\ progress_file.state = "json"
           /\ progress_file.data.total_addresses > 0)
              => th[t].cur > progress_file.data.current_block]_vars

\* C21: in every batch, each entry of the balance log is for an address
\* that has a line in the address log of the same batch, so the balance
\* log has no more lines than the address log.
C21_BalanceEntriesHaveAddress ==
    \A i \in Idx :
        /\ \A k \in DOMAIN bal_files[i].lines :
              \E j \in DOMAIN addr_files[i].lines :
                  addr_files[i].lines[j].addr = bal_files[i].lines[k].addr
        /\ Len(bal_files[i].lines) <= Len(addr_files[i].lines)

====
